---- MODULE Spec2Model ----
(***************************************************************************)
(* Model of orchestration/run.py: the single-task-step run controller.     *)
(* One invocation of main() loads the runbook, optionally rebases it       *)
(* (--start-from), stops on a task in ERROR, promotes PENDING tasks whose  *)
(* dependencies are met, executes the first READY task and exits.          *)
(*                                                                         *)
(* The in-memory runbook and runbook.yaml agree at every step boundary     *)
(* (every mutation is followed by save_yaml inside the same step), so one  *)
(* variable, runbook, stands for both.                                     *)
(***************************************************************************)
EXTENDS Integers, Sequences, FiniteSets, TLC

\* ------------------------------------------------------------------ bounds
NumTasks == 3      \* tasks in the runbook
MaxEdges == 3      \* depends_on entries in a task set given to the resolver alone
MaxRunEdges == 2   \* depends_on entries in a runbook that is run
MaxLog == 4        \* an invocation starts only while the log has room for its two entries
MaxRetries == 2    \* retry choices taken in one AI_ASSISTED review loop
MaxFaults == 1     \* changes made to the files from outside in one behaviour
MaxFaultEdges == 0 \* depends_on entries in a runbook run among such changes
MaxFaultRuns == 1  \* invocations started after such a change
MaxProgressEdges == 2 \* depends_on entries in a runbook run to completion

\* --------------------------------------------------------------- constants
Statuses == {"PENDING", "READY", "RUNNING", "DONE", "ERROR", "SKIPPED"}
Terminal == {"DONE", "ERROR", "SKIPPED"}
TaskTypes == {"MANUAL", "AUTOMATED_SCRIPT", "AI_ASSISTED", "OTHER"}

Positions == 1..NumTasks
\* ids that depends_on and --start-from may name: the ids of the runbook and
\* one id that no task carries
NameableIds == 1..(NumTasks + 1)

VARIABLES
    runbook,     \* runbook.yaml 'tasks': sequence of [id, status, depends_on]
    detail,      \* per position: the task_detail_file [exists, writable, blank,
                 \* status, issues]; blank = it holds nothing for the handler
    log,         \* logs/run_log.jsonl: sequence of entries
    log_env,     \* the log's place on disk: "ok" | "unwritable" | "nodir"
    runbook_exists, \* RUNBOOK_PATH names a file
    faults,      \* changes made to the files from outside so far
    fault_runs,  \* invocations started since the first such change
    pc,          \* position of the running process in main(); "idle" = no process
    start_from,  \* main()'s argument; 0 = not given
    task,        \* position of main()'s local 'task'; 0 = none
    prev_status, \* main()'s local 'prev_status'
    task_type,   \* main()'s local 'task_type'
    new_status,  \* main()'s local 'new_status'
    choice,      \* main()'s local 'choice': the last decisive answer read
    prompt,      \* AI_ASSISTED: the local 'prompt' ("original" | "fallback")
    fallback,    \* AI_ASSISTED: whether ai_details has a fallback_prompt
    sent,        \* AI_ASSISTED: prompts passed to call_openai_api, in order
    result,      \* AI_ASSISTED: the last response text ("" when unavailable)
    retcode,     \* AUTOMATED_SCRIPT: result.returncode, -1 = 'result' unbound
    exit_code,   \* exit status of the last process, -1 = none ended or one is running
    had_error,   \* history: some task was in ERROR when this invocation began
    log_mark,    \* history: length of the log when this invocation began
    n_started,   \* history: tasks this invocation moved to RUNNING
    n_terminal   \* history: tasks this invocation moved to a terminal status

vars == <<runbook, detail, log, log_env, runbook_exists, faults, fault_runs, pc,
          start_from, task, prev_status, task_type, new_status, choice, prompt,
          fallback, sent, result, retcode, exit_code, had_error, log_mark,
          n_started, n_terminal>>

\* what no step of run.py changes: where the files live and what was done to
\* them from outside
env == <<log_env, runbook_exists, faults>>

\* an invocation may start: the log, followed up to cap entries, has room for
\* its two entries, and after a change from outside at most MaxFaultRuns
\* invocations are followed
MayStart(cap) ==
    /\ Len(log) + 2 <= cap
    /\ faults > 0 => fault_runs < MaxFaultRuns

RunsCounted == IF faults > 0 THEN fault_runs + 1 ELSE fault_runs

\* main()'s locals, which die with the process
locals == <<task, prev_status, task_type, new_status, choice, prompt,
            fallback, sent, result, retcode>>

\* what an invocation can write
files == <<runbook, detail, log>>

\* set when an invocation begins
history == <<had_error, log_mark, n_started, n_terminal>>

\* ------------------------------------------------------- dependency resolver

\* get_task_by_id: position of the first task whose id is task_id, 0 for None
RECURSIVE ScanId(_, _, _)
ScanId(rb, task_id, i) ==
    IF i > Len(rb) THEN 0
    ELSE IF rb[i].id = task_id THEN i
    ELSE ScanId(rb, task_id, i + 1)

get_task_by_id(rb, task_id) == ScanId(rb, task_id, 1)

\* variant: only DONE counts, as the first docstring of dependencies_met says
DepSatisfiedDoneOnly(rb, dep) ==
    LET dep_task == get_task_by_id(rb, dep)
    IN  ~(dep_task = 0 \/ rb[dep_task].status \notin {"DONE"})

\* variant: a dependency that is merely READY counts as satisfied
DepSatisfiedReadyToo(rb, dep) ==
    LET dep_task == get_task_by_id(rb, dep)
    IN  ~(dep_task = 0 \/ rb[dep_task].status \notin {"DONE", "SKIPPED", "READY"})

\* variant: a dependency that is RUNNING counts as satisfied
DepSatisfiedRunningToo(rb, dep) ==
    LET dep_task == get_task_by_id(rb, dep)
    IN  ~(dep_task = 0 \/ rb[dep_task].status \notin {"DONE", "SKIPPED", "RUNNING"})

\* one dependency is satisfied: it resolves, and to a DONE or SKIPPED task
DepSatisfied(rb, dep) ==
    LET dep_task == get_task_by_id(rb, dep)
    IN  ~(dep_task = 0 \/ rb[dep_task].status \notin {"DONE", "SKIPPED"})

\* dependencies_met: the loop over depends_on, returning False at the first
\* dependency that is missing or not DONE/SKIPPED
RECURSIVE ScanDeps(_, _, _)
ScanDeps(rb, deps, k) ==
    IF k > Len(deps) THEN TRUE
    ELSE IF ~DepSatisfied(rb, deps[k]) THEN FALSE
    ELSE ScanDeps(rb, deps, k + 1)

dependencies_met(t, rb) == ScanDeps(rb, t.depends_on, 1)

\* variant: the refresh also re-opens SKIPPED tasks
PromotableSkipped(rb, i) ==
    rb[i].status \in {"PENDING", "SKIPPED"} /\ dependencies_met(rb[i], rb)

\* variant: only a task without dependencies is promoted
PromotableNoDeps(rb, i) == rb[i].status = "PENDING" /\ rb[i].depends_on = <<>>

\* the test of refresh_ready_tasks' loop body
Promotable(rb, i) == rb[i].status = "PENDING" /\ dependencies_met(rb[i], rb)

\* refresh_ready_tasks: one in-place pass over the tasks in stored order
RECURSIVE RefreshFrom(_, _)
RefreshFrom(rb, i) ==
    IF i > Len(rb) THEN rb
    ELSE RefreshFrom(IF Promotable(rb, i)
                     THEN [rb EXCEPT ![i].status = "READY"]
                     ELSE rb,
                     i + 1)

refresh_ready_tasks(rb) == RefreshFrom(rb, 1)

\* variant: the scan does not look at the dependencies of a READY task
RunnableAnyReady(rb, i) == rb[i].status = "READY"

\* the test of get_next_ready_task's loop body
Runnable(rb, i) == rb[i].status = "READY" /\ dependencies_met(rb[i], rb)

\* get_next_ready_task: position of the first runnable task, 0 for None
RECURSIVE ScanReady(_, _)
ScanReady(rb, i) ==
    IF i > Len(rb) THEN 0
    ELSE IF Runnable(rb, i) THEN i
    ELSE ScanReady(rb, i + 1)

\* variant: the scan keeps the last runnable task instead of returning the first
RECURSIVE ScanReadyLast(_, _, _)
ScanReadyLast(rb, i, found) ==
    IF i > Len(rb) THEN found
    ELSE ScanReadyLast(rb, i + 1, IF Runnable(rb, i) THEN i ELSE found)

get_last_ready_task(rb) == ScanReadyLast(rb, 1, 0)

get_next_ready_task(rb) == ScanReady(rb, 1)

\* ------------------------------------------------------------ run controller

\* variant: an unknown start_from is taken for the first task
IndexOfOrFirst(rb, sf) ==
    IF get_task_by_id(rb, sf) = 0 THEN 1 ELSE get_task_by_id(rb, sf)

\* 'start_from in ids' and ids.index(start_from): the first position carrying
\* the id, 0 when no task carries it
IndexOf(rb, sf) == get_task_by_id(rb, sf)

\* variant: the rebase loop resets every later task, DONE or not
RebasedStatusResetDone(rb, idx, start_index) ==
    IF idx < start_index THEN "SKIPPED"
    ELSE IF idx = start_index THEN "READY"
    ELSE "PENDING"

\* the status the rebase loop gives the task at position idx
RebasedStatus(rb, idx, start_index) ==
    IF idx < start_index THEN "SKIPPED"
    ELSE IF idx = start_index THEN "READY"
    ELSE IF rb[idx].status # "DONE" THEN "PENDING"
    ELSE rb[idx].status

\* the rebase loop of main(), for a start_from found at start_index
RebaseTasks(rb, start_index) ==
    [idx \in 1..Len(rb) |->
        [rb[idx] EXCEPT !.status = RebasedStatus(rb, idx, start_index)]]

\* variant: the gate stops on a status the engine never writes
AnyErrorFailed(rb) == \E i \in 1..Len(rb) : rb[i].status = "FAILED"

\* variant: the gate looks at the first task only
AnyErrorFirstOnly(rb) == Len(rb) > 0 /\ rb[1].status = "ERROR"

\* the error gate's test: some task is in ERROR
AnyError(rb) == \E i \in 1..Len(rb) : rb[i].status = "ERROR"

\* -------------------------------------------------------------- side effects

\* update_task_status reaches its end: the detail file loads and saves
DetailUsable(i) == detail[i].exists /\ detail[i].writable

\* update_task_status: the runbook is saved first, then the detail file is
\* loaded, changed and saved; a detail file that cannot be loaded or saved
\* ends the process (load_yaml / save_yaml call sys.exit(1))
UpdateRunbook(i, s) == [runbook EXCEPT ![i].status = s]

UpdateDetail(i, s) ==
    IF DetailUsable(i) THEN [detail EXCEPT ![i].status = s] ELSE detail

\* log_event: the entry built from its arguments
LogEntry(task_id, event_type, status_change, details) ==
    [task_id |-> task_id, event_type |-> event_type,
     status_change |-> status_change, details |-> details]

\* variant: the log file is opened with 'w' instead of 'a'
LoggedTruncating(entry) == IF log_env = "ok" THEN <<entry>> ELSE log

\* log_event: the log after the call; a failed write is reported and dropped
Logged(entry) == IF log_env = "ok" THEN Append(log, entry) ELSE log

\* log_event returns: LOG_DIR.mkdir sits outside the try block
LogReturns == log_env # "nodir"

\* the 'details' argument of log_event: none, {returncode, cost_usd: 0.0}
\* (returncode -1 stands for None), {response, usage, cost_usd}
NoDetails ==
    [kind |-> "none", returncode |-> -1, response |-> "", cost_usd |-> "none"]
ScriptDetails(rc) ==
    [kind |-> "script", returncode |-> rc, response |-> "", cost_usd |-> "0.0"]
AiDetails(resp) ==
    [kind |-> "ai", returncode |-> -1, response |-> resp,
     cost_usd |-> "estimate_cost(total_tokens)"]

\* variant: only an ERROR status is logged as ERROR_TASK
TerminalEventErrorOnly(s) == IF s = "ERROR" THEN "ERROR_TASK" ELSE "COMPLETE_TASK"

\* evt = 'COMPLETE_TASK' if new_status == 'DONE' else 'ERROR_TASK'
TerminalEvent(s) == IF s = "DONE" THEN "COMPLETE_TASK" ELSE "ERROR_TASK"

\* the details the handler of task type ty passes to log_event
TerminalDetails(ty) ==
    CASE ty = "AUTOMATED_SCRIPT" -> ScriptDetails(retcode)
      [] ty = "AI_ASSISTED" -> AiDetails(result)
      [] OTHER -> NoDetails

\* str(details.get("returncode")): the text of the return code, "None" when
\* 'result' was never bound
StrOf(rc) ==
    CASE rc = -1 -> "None"
      [] rc = 0 -> "0"
      [] rc = 1 -> "1"

\* the issue the handler of task type ty records on ERROR: {type, detail}
IssueFor(ty) ==
    CASE ty = "MANUAL" ->
             [type |-> "USER_MARKED_ERROR", detail |-> "Manual task marked as error"]
      [] ty = "AUTOMATED_SCRIPT" ->
             [type |-> "SCRIPT_ERROR", detail |-> StrOf(retcode)]
      [] OTHER ->
             [type |-> "AI_RESPONSE_REJECTED", detail |-> result]

\* the process ends with code c; its locals are gone, 'task' and 'new_status'
\* are kept as the record of what it worked on
Exit(c) ==
    /\ pc' = "idle"
    /\ exit_code' = c
    /\ prev_status' = "none"
    /\ task_type' = "none"
    /\ prompt' = "none"
    /\ fallback' = FALSE
    /\ sent' = <<>>
    /\ result' = ""
    /\ retcode' = -1

\* ------------------------------------------------------------ initial state

\* no process has run yet
InitLocals ==
    /\ task = 0
    /\ prev_status = "none"
    /\ task_type = "none"
    /\ new_status = "none"
    /\ choice = "none"
    /\ prompt = "none"
    /\ fallback = FALSE
    /\ sent = <<>>
    /\ result = ""
    /\ retcode = -1

InitHistory ==
    /\ had_error = FALSE
    /\ log_mark = 0
    /\ n_started = 0
    /\ n_terminal = 0

\* a dependency entry: <<position of the task, id it depends on>>
Edges == Positions \X NameableIds

\* the sets of at most n dependency entries
RECURSIVE EdgeSets(_)
EdgeSets(n) ==
    IF n = 0 THEN {{}}
    ELSE LET smaller == EdgeSets(n - 1)
         IN  smaller \cup {es \cup {e} : es \in smaller, e \in Edges}

\* the ids of a set as a list in increasing order
RECURSIVE ListOf(_)
ListOf(ids) ==
    IF ids = {} THEN <<>>
    ELSE LET least == CHOOSE a \in ids : \A b \in ids : a <= b
         IN  <<least>> \o ListOf(ids \ {least})

\* the runbook with unique ids in declaration order, statuses st and the
\* dependency entries es (a task without entries has no depends_on, which
\* task.get('depends_on', []) reads as the empty list)
Runbook(st, es) ==
    [i \in Positions |->
        [id |-> i, status |-> st[i],
         depends_on |-> ListOf({e[2] : e \in {x \in es : x[1] = i}})]]

\* a runbook as generate_app_runbook.py leaves it: every task PENDING, one
\* detail file per task with the same status
Init ==
    /\ \E es \in EdgeSets(MaxRunEdges) :
          runbook = Runbook([i \in Positions |-> "PENDING"], es)
    /\ detail = [i \in Positions |->
                    [exists |-> TRUE, writable |-> TRUE, blank |-> FALSE,
                     status |-> "PENDING", issues |-> <<>>]]
    /\ log = <<>>
    /\ log_env = "ok"
    /\ runbook_exists = TRUE
    /\ faults = 0
    /\ fault_runs = 0
    /\ pc = "idle"
    /\ start_from = 0
    /\ exit_code = -1
    /\ InitLocals
    /\ InitHistory

\* ------------------------------------------------------------------ actions

\* cli() -> main(start_from): a process starts and loads the runbook
Begin(sf, cap) ==
    /\ pc = "idle"
    /\ runbook_exists
    /\ MayStart(cap)
    /\ fault_runs' = RunsCounted
    /\ pc' = "rebase"
    /\ start_from' = sf
    /\ task' = 0
    /\ new_status' = "none"
    /\ choice' = "none"
    /\ had_error' = (\E i \in 1..Len(runbook) : runbook[i].status = "ERROR")
    /\ log_mark' = Len(log)
    /\ n_started' = 0
    /\ n_terminal' = 0
    /\ exit_code' = -1
    /\ UNCHANGED <<files, env, prev_status, task_type, prompt, fallback,
                   sent, result, retcode>>

Invoke(sf) == Begin(sf, MaxLog)

\* cli() -> main(start_from) without a runbook.yaml: load_yaml prints
\* "YAML file not found" and calls sys.exit(1)
InvokeAbort(sf) ==
    /\ pc = "idle"
    /\ ~runbook_exists
    /\ MayStart(MaxLog)
    /\ fault_runs' = RunsCounted
    /\ start_from' = sf
    /\ task' = 0
    /\ new_status' = "none"
    /\ choice' = "none"
    /\ had_error' = FALSE
    /\ log_mark' = Len(log)
    /\ n_started' = 0
    /\ n_terminal' = 0
    /\ Exit(1)
    /\ UNCHANGED <<files, env>>

\* 'if start_from:' is false
NoRebase ==
    /\ pc = "rebase"
    /\ start_from = 0
    /\ pc' = "gate"
    /\ UNCHANGED <<files, env, fault_runs, start_from, locals, exit_code, history>>

\* start_from is no id of the runbook: sys.exit(1)
RebaseAbort ==
    /\ pc = "rebase"
    /\ start_from # 0
    /\ IndexOf(runbook, start_from) = 0
    /\ Exit(1)
    /\ UNCHANGED <<files, env, fault_runs, start_from, task, new_status, choice, history>>

\* the rebase loop and save_yaml(runbook)
Rebase ==
    /\ pc = "rebase"
    /\ start_from # 0
    /\ IndexOf(runbook, start_from) # 0
    /\ runbook' = RebaseTasks(runbook, IndexOf(runbook, start_from))
    /\ pc' = "gate"
    /\ UNCHANGED <<detail, log, env, fault_runs, start_from, locals, exit_code, history>>

\* the error gate finds a task in ERROR: sys.exit(1)
GateStop ==
    /\ pc = "gate"
    /\ AnyError(runbook)
    /\ Exit(1)
    /\ UNCHANGED <<files, env, fault_runs, start_from, task, new_status, choice, history>>

\* the error gate finds none
GatePass ==
    /\ pc = "gate"
    /\ ~AnyError(runbook)
    /\ pc' = "refresh"
    /\ UNCHANGED <<files, env, fault_runs, start_from, locals, exit_code, history>>

\* refresh_ready_tasks(runbook), saving when a task was promoted
Refresh ==
    /\ pc = "refresh"
    /\ runbook' = refresh_ready_tasks(runbook)
    /\ pc' = "select"
    /\ UNCHANGED <<detail, log, env, fault_runs, start_from, locals, exit_code, history>>

\* task = get_next_ready_task(runbook) finds a task
Select ==
    /\ pc = "select"
    /\ get_next_ready_task(runbook) # 0
    /\ task' = get_next_ready_task(runbook)
    /\ prev_status' = runbook[get_next_ready_task(runbook)].status
    /\ pc' = "mark"
    /\ UNCHANGED <<files, env, fault_runs, start_from, task_type, new_status, choice, prompt,
                   fallback, sent, result, retcode, exit_code, history>>

\* 'if not task: break': "No READY tasks. Exiting."
NoneReady ==
    /\ pc = "select"
    /\ get_next_ready_task(runbook) = 0
    /\ Exit(0)
    /\ UNCHANGED <<files, env, fault_runs, start_from, task, new_status, choice, history>>

\* update_task_status(runbook, task, 'RUNNING')
MarkRunning ==
    /\ pc = "mark"
    /\ runbook' = UpdateRunbook(task, "RUNNING")
    /\ detail' = UpdateDetail(task, "RUNNING")
    /\ n_started' = n_started + 1
    /\ IF DetailUsable(task)
       THEN /\ pc' = "log_start"
            /\ UNCHANGED <<prev_status, task_type, prompt, fallback, sent,
                           result, retcode, exit_code>>
       ELSE Exit(1)
    /\ UNCHANGED <<log, env, fault_runs, start_from, task, new_status, choice, had_error,
                   log_mark, n_terminal>>

\* log_event(id, 'START_TASK', f"{prev_status}->RUNNING")
LogStart ==
    /\ pc = "log_start"
    /\ log' = Logged(LogEntry(runbook[task].id, "START_TASK",
                              <<prev_status, "RUNNING">>, NoDetails))
    /\ IF LogReturns
       THEN /\ pc' = "dispatch"
            /\ UNCHANGED <<prev_status, task_type, prompt, fallback, sent,
                           result, retcode, exit_code>>
       ELSE Exit(1)
    /\ UNCHANGED <<runbook, detail, env, fault_runs, start_from, task, new_status, choice,
                   history>>

\* 'task_type = task.get('type')' and the branch on it. run.py never writes
\* the 'type' field or the handler's part of the detail file, and reads them
\* once per invocation: they are inputs of this step.
Dispatch(ty, fb) ==
    /\ pc = "dispatch"
    /\ detail[task].exists
    /\ fb => ~detail[task].blank
    /\ task_type' = ty
    /\ CASE ty = "MANUAL" ->
              /\ fb = FALSE
              /\ pc' = "manual"
              /\ UNCHANGED <<new_status, prompt, fallback>>
         [] ty = "AUTOMATED_SCRIPT" ->
              /\ fb = FALSE
              /\ pc' = "script"
              /\ UNCHANGED <<new_status, prompt, fallback>>
         [] ty = "AI_ASSISTED" ->
              /\ pc' = "ai_call"
              /\ prompt' = "original"
              /\ fallback' = fb
              /\ UNCHANGED new_status
         [] OTHER ->
              /\ fb = FALSE
              /\ pc' = "term_status"
              /\ new_status' = "DONE"
              /\ UNCHANGED <<prompt, fallback>>
    /\ UNCHANGED <<files, env, fault_runs, start_from, task, prev_status, choice, sent,
                   result, retcode, exit_code, history>>

\* detail = load_yaml(detail_path) does not find the file: sys.exit(1)
DispatchAbort ==
    /\ pc = "dispatch"
    /\ ~detail[task].exists
    /\ Exit(1)
    /\ UNCHANGED <<files, env, fault_runs, start_from, task, new_status, choice, history>>

\* variant: a skipped task counts as done
ManualStatusSkipDone(c) == IF c = "e" THEN "ERROR" ELSE "DONE"

\* new_status = 'DONE' if choice == 'y' else ('SKIPPED' if choice == 's' else 'ERROR')
ManualStatus(c) ==
    IF c = "y" THEN "DONE" ELSE IF c = "s" THEN "SKIPPED" ELSE "ERROR"

\* MANUAL: the operator answers y, e or s
ManualChoice(c) ==
    /\ pc = "manual"
    /\ c \in {"y", "e", "s"}
    /\ new_status' = ManualStatus(c)
    /\ choice' = c
    /\ pc' = "term_status"
    /\ UNCHANGED <<files, env, fault_runs, start_from, task, prev_status, task_type,
                   prompt, fallback, sent, result, retcode, exit_code, history>>

\* MANUAL: any other input repeats the prompt
ManualRepeat ==
    /\ pc = "manual"
    /\ UNCHANGED vars

\* variant: any return code counts as success
ScriptStatusAlwaysDone(rc) == "DONE"

\* new_status = "DONE" if result.returncode == 0 else "ERROR"
ScriptStatus(rc) == IF rc = 0 THEN "DONE" ELSE "ERROR"

\* AUTOMATED_SCRIPT with a command: subprocess.run returns code rc
ScriptRun(rc) ==
    /\ pc = "script"
    /\ ~detail[task].blank
    /\ retcode' = rc
    /\ new_status' = ScriptStatus(rc)
    /\ pc' = "term_status"
    /\ UNCHANGED <<files, env, fault_runs, start_from, task, prev_status, task_type, choice,
                   prompt, fallback, sent, result, exit_code, history>>

\* AUTOMATED_SCRIPT without a command, or subprocess.run raises: 'result'
\* stays unbound
ScriptFail ==
    /\ pc = "script"
    /\ retcode' = -1
    /\ new_status' = "ERROR"
    /\ pc' = "term_status"
    /\ UNCHANGED <<files, env, fault_runs, start_from, task, prev_status, task_type, choice,
                   prompt, fallback, sent, result, exit_code, history>>

\* AI_ASSISTED: call_openai_api(prompt, model) returns resp ("" when the
\* library, the key or the service is missing)
AiCall(resp) ==
    /\ pc = "ai_call"
    /\ sent' = Append(sent, prompt)
    /\ result' = resp
    /\ pc' = "ai_review"
    /\ UNCHANGED <<files, env, fault_runs, start_from, task, prev_status, task_type,
                   new_status, choice, prompt, fallback, retcode, exit_code, history>>

\* variant: accept-as-manual is taken for a rejection
AiStatusManualRejects(c) == IF c = "y" THEN "DONE" ELSE "ERROR"

\* new_status after the operator's decisive answer
AiStatus(c) == IF c \in {"y", "m"} THEN "DONE" ELSE "ERROR"

\* AI_ASSISTED: the operator answers y, m or e and the loop is left; the
\* prompt, the fallback prompt and the calls made are not read again
AiDecide(c) ==
    /\ pc = "ai_review"
    /\ c \in {"y", "m", "e"}
    /\ new_status' = AiStatus(c)
    /\ choice' = c
    /\ pc' = "term_status"
    /\ prompt' = "none"
    /\ fallback' = FALSE
    /\ sent' = <<>>
    /\ UNCHANGED <<files, env, fault_runs, start_from, task, prev_status, task_type,
                   result, retcode, exit_code, history>>

\* variant: a second retry goes back to the original prompt
RetryPromptAlternating ==
    IF fallback /\ prompt = "original" THEN "fallback" ELSE "original"

\* the prompt of the next call after a retry choice
RetryPrompt == IF fallback THEN "fallback" ELSE prompt

\* AI_ASSISTED: the operator answers r
AiRetry ==
    /\ pc = "ai_review"
    /\ Len(sent) <= MaxRetries
    /\ prompt' = RetryPrompt
    /\ pc' = "ai_call"
    /\ UNCHANGED <<files, env, fault_runs, start_from, task, prev_status, task_type,
                   new_status, choice, fallback, sent, result, retcode, exit_code,
                   history>>

\* AI_ASSISTED: any other input repeats the question
AiRepeat ==
    /\ pc = "ai_review"
    /\ UNCHANGED vars

\* update_task_status(runbook, task, new_status)
TermStatus ==
    /\ pc = "term_status"
    /\ runbook' = UpdateRunbook(task, new_status)
    /\ detail' = UpdateDetail(task, new_status)
    /\ n_terminal' = n_terminal + 1
    /\ IF DetailUsable(task)
       THEN /\ pc' = "term_log"
            /\ UNCHANGED <<prev_status, task_type, prompt, fallback, sent,
                           result, retcode, exit_code>>
       ELSE Exit(1)
    /\ UNCHANGED <<log, env, fault_runs, start_from, task, new_status, choice, had_error,
                   log_mark, n_started>>

\* variant: the handler's 'break' is missing, the while loop goes round again
AfterTermLogNoBreak == IF new_status = "ERROR" THEN "issue" ELSE "refresh"

\* where main() goes after the terminal log_event: record_issue on ERROR
\* (the stub for other task types only ends DONE), else 'break'
AfterTermLog == IF new_status = "ERROR" THEN "issue" ELSE "idle"

\* log_event(id, evt, f"RUNNING->{new_status}", details)
TermLog ==
    /\ pc = "term_log"
    /\ log' = Logged(LogEntry(runbook[task].id, TerminalEvent(new_status),
                              <<"RUNNING", new_status>>,
                              TerminalDetails(task_type)))
    /\ IF ~LogReturns THEN Exit(1)
       ELSE IF AfterTermLog = "idle" THEN Exit(0)
       ELSE /\ pc' = AfterTermLog
            /\ UNCHANGED <<prev_status, task_type, prompt, fallback, sent,
                           result, retcode, exit_code>>
    /\ UNCHANGED <<runbook, detail, env, fault_runs, start_from, task, new_status, choice,
                   history>>

\* record_issue(detail_path, type, detail), then 'break'. load_yaml and
\* save_yaml leave by sys.exit(1), which 'except Exception' does not catch.
RecordIssue ==
    /\ pc = "issue"
    /\ IF DetailUsable(task)
       THEN /\ detail' = [detail EXCEPT ![task].issues =
                               Append(@, IssueFor(task_type))]
            /\ Exit(0)
       ELSE /\ detail' = detail
            /\ Exit(1)
    /\ UNCHANGED <<runbook, log, env, fault_runs, start_from, task, new_status, choice, history>>

\* the process is terminated while it blocks on the operator or the script
Kill ==
    /\ pc \in {"manual", "script", "ai_call", "ai_review"}
    /\ Exit(137)
    /\ UNCHANGED <<files, env, fault_runs, start_from, task, new_status, choice, history>>

\* between invocations the operator reopens a task stuck in ERROR or RUNNING
\* by hand ("set status back to READY"), in the runbook and its detail file
Reopen(i) ==
    /\ pc = "idle"
    /\ runbook_exists
    /\ runbook[i].status \in {"ERROR", "RUNNING"}
    /\ runbook' = [runbook EXCEPT ![i].status = "READY"]
    /\ detail' = IF detail[i].exists
                 THEN [detail EXCEPT ![i].status = "READY"]
                 ELSE detail
    /\ UNCHANGED <<log, env, fault_runs, pc, start_from, locals, exit_code, history>>

Next ==
    \/ \E sf \in 0..(NumTasks + 1) : Invoke(sf)
    \/ NoRebase
    \/ RebaseAbort
    \/ Rebase
    \/ GateStop
    \/ GatePass
    \/ Refresh
    \/ Select
    \/ NoneReady
    \/ MarkRunning
    \/ LogStart
    \/ \E ty \in TaskTypes, fb \in BOOLEAN : Dispatch(ty, fb)
    \/ \E c \in {"y", "e", "s"} : ManualChoice(c)
    \/ ManualRepeat
    \/ \E rc \in {0, 1} : ScriptRun(rc)
    \/ ScriptFail
    \/ \E resp \in {"text", ""} : AiCall(resp)
    \/ \E c \in {"y", "m", "e"} : AiDecide(c)
    \/ AiRetry
    \/ AiRepeat
    \/ TermStatus
    \/ TermLog
    \/ RecordIssue
    \/ Kill
    \/ \E i \in Positions : Reopen(i)

Spec == Init /\ [][Next]_vars

\* ------------------------------------------------- the files under faults

\* what can happen to a task_detail_file from outside: it is removed, it
\* loses its write permission, or it is emptied (load_yaml then returns {})
DetailAfter(d, kind) ==
    CASE kind = "absent" ->
             [exists |-> FALSE, writable |-> TRUE, blank |-> TRUE,
              status |-> "none", issues |-> <<>>]
      [] kind = "unwritable" -> [d EXCEPT !.writable = FALSE]
      [] OTHER ->
             [exists |-> TRUE, writable |-> TRUE, blank |-> TRUE,
              status |-> "none", issues |-> <<>>]

DetailFault(i, kind) ==
    /\ faults < MaxFaults
    /\ runbook_exists
    /\ faults' = faults + 1
    /\ detail' = [detail EXCEPT ![i] = DetailAfter(@, kind)]
    /\ UNCHANGED <<fault_runs, runbook, log, log_env, runbook_exists, pc, start_from,
                   locals, exit_code, history>>

\* logs/run_log.jsonl loses its write permission ("unwritable"), or logs/
\* cannot be created, so that LOG_DIR.mkdir raises ("nodir")
LogFault(kind) ==
    /\ faults < MaxFaults
    /\ runbook_exists
    /\ faults' = faults + 1
    /\ log_env' = kind
    /\ UNCHANGED <<fault_runs, files, runbook_exists, pc, start_from, locals, exit_code,
                   history>>

\* runbook.yaml is removed between two invocations
RunbookFault ==
    /\ faults < MaxFaults
    /\ runbook_exists
    /\ pc = "idle"
    /\ faults' = faults + 1
    /\ runbook_exists' = FALSE
    /\ runbook' = <<>>
    /\ UNCHANGED <<fault_runs, detail, log, log_env, pc, start_from, locals, exit_code,
                   history>>

InitFaults ==
    /\ \E es \in EdgeSets(MaxFaultEdges) :
          runbook = Runbook([i \in Positions |-> "PENDING"], es)
    /\ detail = [i \in Positions |->
                    [exists |-> TRUE, writable |-> TRUE, blank |-> FALSE,
                     status |-> "PENDING", issues |-> <<>>]]
    /\ log = <<>>
    /\ log_env = "ok"
    /\ runbook_exists = TRUE
    /\ faults = 0
    /\ fault_runs = 0
    /\ pc = "idle"
    /\ start_from = 0
    /\ exit_code = -1
    /\ InitLocals
    /\ InitHistory

NextFaults ==
    \/ Next
    \/ \E sf \in 0..(NumTasks + 1) : InvokeAbort(sf)
    \/ DispatchAbort
    \/ \E i \in Positions, kind \in {"absent", "unwritable", "empty"} :
          DetailFault(i, kind)
    \/ \E kind \in {"unwritable", "nodir"} : LogFault(kind)
    \/ RunbookFault

SpecFaults == InitFaults /\ [][NextFaults]_vars

\* ------------------------------------------- the dependency resolver alone

\* any task set: every status, every choice of up to MaxEdges dependency
\* entries, handed to refresh_ready_tasks and get_next_ready_task as main()'s
\* loop calls them
InitResolver ==
    /\ \E st \in [Positions -> Statuses], es \in EdgeSets(MaxEdges) :
          runbook = Runbook(st, es)
    /\ detail = [i \in Positions |->
                    [exists |-> TRUE, writable |-> TRUE, blank |-> FALSE,
                     status |-> runbook[i].status, issues |-> <<>>]]
    /\ log = <<>>
    /\ log_env = "ok"
    /\ runbook_exists = TRUE
    /\ faults = 0
    /\ fault_runs = 0
    /\ pc = "refresh"
    /\ start_from = 0
    /\ exit_code = -1
    /\ InitLocals
    /\ InitHistory

NextResolver == Refresh \/ Select \/ NoneReady

SpecResolver == InitResolver /\ [][NextResolver]_vars

\* ---------------------------------------------------------------- properties

\* stated without the resolver's loops: every id of t's depends_on is the id
\* of some task of rb that is DONE or SKIPPED
DepsResolved(t, rb) ==
    \A k \in 1..Len(t.depends_on) :
        \E j \in 1..Len(rb) :
            /\ rb[j].id = t.depends_on[k]
            /\ rb[j].status \in {"DONE", "SKIPPED"}

\* the id that no task of the runbook carries
GhostId == NumTasks + 1

C2_RefreshIdempotent ==
    refresh_ready_tasks(refresh_ready_tasks(runbook)) = refresh_ready_tasks(runbook)

\* C2 witness: after the Refresh step a task it promoted (its detail file
\* still says PENDING) is the only dependency of a task that is still PENDING.
C2_Witness ==
    /\ pc = "select"
    /\ \E i, j \in Positions :
          /\ runbook[i].status = "READY"
          /\ detail[i].status = "PENDING"
          /\ runbook[j].status = "PENDING"
          /\ runbook[j].depends_on = <<runbook[i].id>>

\* stated without the scan: position i holds a READY task with resolved
\* dependencies
ReadyAndResolved(rb, i) ==
    rb[i].status = "READY" /\ DepsResolved(rb[i], rb)

\* C3: get_next_ready_task returns the READY task with met dependencies at
\* the smallest position of the stored list, and none when there is no such
\* task; the Select step takes exactly that task.
C3_NextReadyInOrder ==
    LET n == get_next_ready_task(runbook)
    IN  /\ n = 0 <=> ~\E i \in Positions : ReadyAndResolved(runbook, i)
        /\ n # 0 => /\ ReadyAndResolved(runbook, n)
                    /\ \A j \in 1..(n - 1) : ~ReadyAndResolved(runbook, j)
        /\ pc = "mark" => task = n /\ n # 0
        /\ pc = "idle" => n = 0

\* C3 witness: the Select step took the task at position 2 although position
\* 1 is READY (its dependency is unmet) and position 3 is READY with met
\* dependencies.
C3_Witness ==
    /\ pc = "mark"
    /\ task = 2
    /\ runbook[1].status = "READY"
    /\ ~DepsResolved(runbook[1], runbook)
    /\ ReadyAndResolved(runbook, 3)

\* C4 as claimed: after the rebase to X every task before X is SKIPPED, X is
\* READY, every task after X that was not DONE is PENDING, and every task
\* that was DONE, whatever its position, is still DONE.
C4_Original ==
    [][(pc = "rebase" /\ start_from # 0 /\ IndexOf(runbook, start_from) # 0) =>
         LET x == IndexOf(runbook, start_from)
         IN  /\ \A i \in 1..(x - 1) : runbook'[i].status = "SKIPPED"
             /\ runbook'[x].status = "READY"
             /\ \A i \in (x + 1)..NumTasks :
                    runbook[i].status # "DONE" => runbook'[i].status = "PENDING"
             /\ \A i \in Positions :
                    runbook[i].status = "DONE" => runbook'[i].status = "DONE"]_vars

\* C4 amended: after the rebase to X every task before X is SKIPPED, X is
\* READY, every task after X that was not DONE is PENDING, and every task
\* after X that was DONE is still DONE; the step goes on to the error gate
\* and changes no id, no depends_on, no detail file and no log entry.
C4_Rebase ==
    [][(pc = "rebase" /\ start_from # 0 /\ IndexOf(runbook, start_from) # 0) =>
         LET x == IndexOf(runbook, start_from)
         IN  /\ runbook[x].id = start_from
             /\ \A i \in 1..(x - 1) : runbook'[i].status = "SKIPPED"
             /\ runbook'[x].status = "READY"
             /\ \A i \in (x + 1)..NumTasks :
                    runbook[i].status # "DONE" => runbook'[i].status = "PENDING"
             /\ \A i \in (x + 1)..NumTasks :
                    runbook[i].status = "DONE" => runbook'[i].status = "DONE"
             /\ \A i \in Positions :
                    /\ runbook'[i].id = runbook[i].id
                    /\ runbook'[i].depends_on = runbook[i].depends_on
             /\ pc' = "gate"
             /\ n_started' = 0
             /\ UNCHANGED <<detail, log>>]_vars

\* C4 witness: the rebase to the middle task has run and no task has been
\* executed yet: the first task is SKIPPED, the target READY, and the last
\* task, which an earlier invocation completed, is still DONE.
C4_Witness ==
    /\ pc = "gate"
    /\ start_from = 2
    /\ n_started = 0
    /\ runbook[1].status = "SKIPPED"
    /\ runbook[2].status = "READY"
    /\ runbook[3].status = "DONE"
    /\ \E k \in 1..Len(log) :
          log[k].task_id = runbook[3].id /\ log[k].event_type = "COMPLETE_TASK"

\* C5: an invocation without start_from that begins with a task in ERROR
\* changes nothing (runbook, detail files and log stay as they were, so no
\* task is promoted or marked RUNNING), passes only through the error gate
\* and exits with code 1.
C5_ErrorGate ==
    [][(pc # "idle" /\ start_from = 0 /\ had_error) =>
         /\ UNCHANGED <<runbook, detail, log>>
         /\ pc \in {"rebase", "gate"}
         /\ pc' \in {"gate", "idle"}
         /\ pc' = "idle" => pc = "gate" /\ exit_code' = 1]_vars

\* C5 witness: an invocation without start_from that began with a task in
\* ERROR has ended with exit code 1 and has written nothing to the log.
C5_Witness ==
    /\ pc = "idle"
    /\ start_from = 0
    /\ had_error
    /\ exit_code = 1
    /\ n_started = 0
    /\ \E i \in Positions : runbook[i].status = "ERROR"
    /\ Len(log) = log_mark

\* C6 as claimed: with or without start_from, an invocation that begins with
\* a task in ERROR marks no task RUNNING, ends only at the error gate with
\* code 1, and no step of it overwrites an ERROR status.
C6_Original ==
    [][(pc # "idle" /\ had_error) =>
         /\ n_started' = 0
         /\ pc' = "idle" => pc = "gate" /\ exit_code' = 1
         /\ \A i \in Positions :
                runbook[i].status = "ERROR" => runbook'[i].status = "ERROR"]_vars

\* C6 amended: an invocation WITHOUT start_from that begins with a task in
\* ERROR marks no task RUNNING and ends only at the error gate with code 1;
\* the only step of any invocation that overwrites an ERROR status is the
\* rebase of an invocation with a valid start_from (which runs before the
\* gate and leaves no task in ERROR).
C6_NoSilentProceed ==
    [][pc # "idle" =>
         /\ (had_error /\ start_from = 0) =>
                /\ n_started' = 0
                /\ \A i \in Positions : runbook'[i].status # "RUNNING"
                                        \/ runbook[i].status = "RUNNING"
                /\ pc' = "idle" => pc = "gate" /\ exit_code' = 1
         /\ (pc # "rebase" \/ start_from = 0) =>
                \A i \in Positions :
                    runbook[i].status = "ERROR" => runbook'[i].status = "ERROR"
         /\ (pc = "rebase" /\ pc' = "gate" /\ start_from # 0) =>
                \A i \in Positions : runbook'[i].status # "ERROR"]_vars

\* C6 witness: an invocation without start_from has stopped at the gate with
\* code 1 although another task was READY with its dependencies met.
C6_Witness ==
    /\ pc = "idle"
    /\ start_from = 0
    /\ had_error
    /\ exit_code = 1
    /\ n_started = 0
    /\ \E i \in Positions : ReadyAndResolved(runbook, i)

C8_DetailMirror ==
    [][pc # "idle" =>
         /\ \A i \in Positions :
                runbook'[i].status # runbook[i].status =>
                    detail'[i].status = runbook'[i].status
         /\ pc' = "idle" =>
                \A i \in Positions : detail'[i].status = runbook'[i].status]_vars

\* the status changes of the lifecycle PENDING -> READY -> RUNNING ->
\* {DONE, ERROR, SKIPPED}
Forward ==
    {<<"PENDING", "READY">>, <<"READY", "RUNNING">>, <<"RUNNING", "DONE">>,
     <<"RUNNING", "ERROR">>, <<"RUNNING", "SKIPPED">>}

\* C9: in invocations without start_from every change of a task's status is
\* one of PENDING->READY, READY->RUNNING, RUNNING->DONE, RUNNING->ERROR,
\* RUNNING->SKIPPED (so DONE, ERROR and SKIPPED are never left), and no step
\* adds, removes or renames a task.
C9_ForwardOnly ==
    [][(pc # "idle" /\ start_from = 0) =>
         /\ Len(runbook') = Len(runbook)
         /\ \A i \in Positions :
                /\ runbook'[i].id = runbook[i].id
                /\ runbook'[i].status # runbook[i].status =>
                       <<runbook[i].status, runbook'[i].status>> \in Forward
                /\ runbook[i].status \in Terminal =>
                       runbook'[i].status = runbook[i].status]_vars

\* C9 witness: the second executing invocation without start_from has ended;
\* one task was SKIPPED by the operator's choice, one is DONE, and the third
\* has been promoted to READY.
C9_Witness ==
    /\ pc = "idle"
    /\ start_from = 0
    /\ n_terminal = 1
    /\ log_mark = 2
    /\ \E i, j, k \in Positions :
          /\ runbook[i].status = "SKIPPED"
          /\ runbook[j].status = "DONE"
          /\ runbook[k].status = "READY"
    /\ \E n \in 1..Len(log) : log[n].status_change = <<"RUNNING", "SKIPPED">>

\* C10: the log only grows (existing entries stay as written); a START_TASK
\* entry is appended only once the task's RUNNING status is in the runbook,
\* a terminal entry only once the terminal status is, COMPLETE_TASK when it
\* is DONE; an invocation that executed a task to its terminal status has
\* added exactly two entries for that task: START_TASK, then the terminal
\* entry.
C10_LogOrdering ==
    [][/\ Len(log') >= Len(log)
       /\ SubSeq(log', 1, Len(log)) = log
       /\ Len(log') <= Len(log) + 1
       /\ log' # log =>
              LET e == log'[Len(log')]
              IN  /\ e.task_id = runbook[task].id
                  /\ runbook' = runbook
                  /\ e.event_type = "START_TASK" =>
                         /\ runbook[task].status = "RUNNING"
                         /\ e.status_change = <<"READY", "RUNNING">>
                         /\ Len(log) = log_mark
                  /\ e.event_type # "START_TASK" =>
                         /\ runbook[task].status \in Terminal
                         /\ e.status_change = <<"RUNNING", runbook[task].status>>
                         /\ Len(log) = log_mark + 1
                         /\ log[Len(log)].event_type = "START_TASK"
                         /\ log[Len(log)].task_id = e.task_id
                         /\ runbook[task].status = "DONE" =>
                                e.event_type = "COMPLETE_TASK"
       /\ (pc # "idle" /\ pc' = "idle" /\ n_terminal' = 1) =>
              /\ Len(log') = log_mark + 2
              /\ log'[log_mark + 1].event_type = "START_TASK"
              /\ log'[log_mark + 1].task_id = runbook[task].id
              /\ log'[log_mark + 2].event_type \in {"COMPLETE_TASK", "ERROR_TASK"}
              /\ log'[log_mark + 2].task_id = runbook[task].id]_vars

\* C10 witness: the second executing invocation has ended with its task
\* DONE: the log holds the first invocation's two entries, then START_TASK
\* and COMPLETE_TASK of this task.
C10_Witness ==
    /\ pc = "idle"
    /\ n_terminal = 1
    /\ Len(log) = 4
    /\ log_mark = 2
    /\ runbook[task].status = "DONE"
    /\ log[1].task_id # runbook[task].id
    /\ log[3] = LogEntry(runbook[task].id, "START_TASK", <<"READY", "RUNNING">>,
                         NoDetails)
    /\ log[4].event_type = "COMPLETE_TASK"
    /\ log[4].task_id = runbook[task].id

\* the steps of the AUTOMATED_SCRIPT handler, from the run of the command to
\* the issue record, stated on the handler's own effects; IsExitCode says
\* which texts the issue's detail may be
ScriptOutcome(IsExitCode(_)) ==
    /\ pc = "script" =>
           \/ /\ pc' = "term_status"
              /\ new_status' = "DONE" <=> retcode' = 0
              /\ new_status' = "ERROR" <=> retcode' # 0
              /\ UNCHANGED <<runbook, detail, log>>
           \/ /\ pc' = "idle"
              /\ exit_code' = 137
    /\ (pc = "term_status" /\ task_type = "AUTOMATED_SCRIPT") =>
           /\ runbook'[task].status = (IF retcode = 0 THEN "DONE" ELSE "ERROR")
           /\ detail'[task].status = runbook'[task].status
    /\ (pc = "term_log" /\ task_type = "AUTOMATED_SCRIPT") =>
           /\ Len(log') = Len(log) + 1
           /\ log'[Len(log')].task_id = runbook[task].id
           /\ log'[Len(log')].event_type =
                  (IF retcode = 0 THEN "COMPLETE_TASK" ELSE "ERROR_TASK")
           /\ log'[Len(log')].details.returncode = retcode
           /\ log'[Len(log')].details.cost_usd = "0.0"
           /\ retcode = 0 => pc' = "idle" /\ exit_code' = 0 /\ detail' = detail
           /\ retcode # 0 => pc' = "issue"
    /\ (pc = "issue" /\ task_type = "AUTOMATED_SCRIPT") =>
           /\ retcode # 0
           /\ runbook[task].status = "ERROR"
           /\ Len(detail'[task].issues) = Len(detail[task].issues) + 1
           /\ detail'[task].issues[Len(detail'[task].issues)].type = "SCRIPT_ERROR"
           /\ IsExitCode(detail'[task].issues[Len(detail'[task].issues)].detail)
           /\ pc' = "idle"

\* the text of retcode, the exit code of the command
ExitCodeText(t) == (retcode = 0 /\ t = "0") \/ (retcode = 1 /\ t = "1")

\* the text of retcode, or "None" when no command was run to its end
ReturncodeText(t) == ExitCodeText(t) \/ (retcode = -1 /\ t = "None")

PromptDue(k, fb) == IF k > 1 /\ fb THEN "fallback" ELSE "original"

\* C12: the first generation call of the AI_ASSISTED loop sends
\* ai_details.prompt; every call after a retry choice sends the fallback
\* prompt if there is one, for any number of retries, and the original prompt
\* again if there is none; a retry keeps the calls made so far and whether
\* there is a fallback prompt.
C12_RetryPrompts ==
    [][/\ (pc = "ai_call" /\ pc' = "ai_review") =>
              /\ Len(sent') = Len(sent) + 1
              /\ SubSeq(sent', 1, Len(sent)) = sent
              /\ \A k \in 1..Len(sent') : sent'[k] = PromptDue(k, fallback)
              /\ fallback' = fallback
       /\ (pc = "dispatch" /\ pc' = "ai_call") => sent' = <<>>
       /\ (pc = "ai_review" /\ pc' = "ai_call") =>
              /\ sent' = sent
              /\ fallback' = fallback
              /\ Len(sent) >= 1]_vars

\* C12 witness: a review loop with a fallback prompt after its second retry:
\* the calls sent the original prompt, then the fallback prompt twice.
C12_Witness ==
    /\ pc = "ai_review"
    /\ fallback
    /\ sent = <<"original", "fallback", "fallback">>

\* C13: whenever an invocation that marked a task RUNNING ends without being
\* killed from outside, that task is DONE, ERROR or SKIPPED in the runbook,
\* whatever the task type and whatever the state of the detail file and the
\* log; no task is left RUNNING by an invocation that ended on its own.
C13_AlwaysTerminal ==
    [][(pc # "idle" /\ pc' = "idle" /\ exit_code' # 137 /\ n_started' = 1) =>
          /\ runbook'[task'].status \in Terminal
          /\ \A i \in 1..Len(runbook') :
                 runbook'[i].status = "RUNNING" => runbook[i].status = "RUNNING"
                                                   /\ i # task']_vars

\* C14: an invocation whose start_from is the id of no task ends at once with
\* exit code 1: from its start to its end the runbook, the detail files and
\* the log stay as they were and no task is selected or marked RUNNING.
C14_InvalidStartFrom ==
    [][/\ (pc = "rebase" /\ start_from # 0
           /\ \A i \in Positions : runbook[i].id # start_from) =>
              /\ UNCHANGED <<runbook, detail, log>>
              /\ pc' = "idle"
              /\ exit_code' = 1
              /\ task' = 0
              /\ n_started' = 0
              /\ n_terminal' = 0
       /\ (pc = "idle" /\ pc' # "idle") =>
              /\ pc' = "rebase"
              /\ UNCHANGED <<runbook, detail, log>>
              /\ task' = 0
              /\ n_started' = 0]_vars

\* C14 witness: an invocation with an unknown start_from has ended with code
\* 1 on a runbook that a rebase would have changed (a task is DONE, another
\* READY); nothing was written to the log.
C14_Witness ==
    /\ pc = "idle"
    /\ start_from = GhostId
    /\ exit_code = 1
    /\ task = 0
    /\ n_started = 0
    /\ Len(log) = log_mark
    /\ runbook[1].status = "DONE"
    /\ runbook[2].status = "READY"

\* the status the operator's answer to the MANUAL prompt stands for
ChosenStatus(c) ==
    CASE c = "y" -> "DONE"
      [] c = "e" -> "ERROR"
      [] c = "s" -> "SKIPPED"

\* C15: a MANUAL task ends in the status of the operator's one decisive
\* answer: y gives DONE, e gives ERROR and one USER_MARKED_ERROR issue on the
\* detail file, s gives SKIPPED and no issue; until the answer is y, e or s
\* the handler changes nothing and stays at the prompt.
C15_ManualOutcome ==
    [][/\ pc = "manual" =>
              \/ /\ pc' = "term_status"
                 /\ choice' \in {"y", "e", "s"}
                 /\ UNCHANGED <<runbook, detail, log>>
              \/ /\ pc' = "idle"
                 /\ exit_code' = 137
                 /\ UNCHANGED <<runbook, detail, log>>
       /\ (pc = "term_status" /\ task_type = "MANUAL") =>
              /\ runbook[task].status = "RUNNING"
              /\ runbook'[task].status = ChosenStatus(choice)
              /\ detail'[task].status = ChosenStatus(choice)
              /\ detail'[task].issues = detail[task].issues
       /\ (pc = "term_log" /\ task_type = "MANUAL") =>
              /\ log'[Len(log')].status_change = <<"RUNNING", ChosenStatus(choice)>>
              /\ detail' = detail
              /\ choice = "e" => pc' = "issue"
              /\ choice # "e" => pc' = "idle" /\ exit_code' = 0
       /\ (pc = "issue" /\ task_type = "MANUAL") =>
              /\ choice = "e"
              /\ detail'[task].issues =
                     Append(detail[task].issues,
                            [type |-> "USER_MARKED_ERROR",
                             detail |-> "Manual task marked as error"])
              /\ runbook' = runbook
              /\ pc' = "idle"]_vars

\* C15 witness: the operator has skipped a MANUAL task: it is SKIPPED with no
\* issue; an earlier MANUAL task that was marked as error carries its one
\* USER_MARKED_ERROR issue.
C15_Witness ==
    /\ pc = "idle"
    /\ choice = "s"
    /\ runbook[task].status = "SKIPPED"
    /\ detail[task].issues = <<>>
    /\ log[Len(log)].status_change = <<"RUNNING", "SKIPPED">>
    /\ log[Len(log)].details = NoDetails
    /\ \E j \in Positions :
          detail[j].issues = <<[type |-> "USER_MARKED_ERROR",
                                detail |-> "Manual task marked as error"]>>

\* the status the operator's decisive answer in the AI_ASSISTED loop stands for
ReviewedStatus(c) ==
    CASE c \in {"y", "m"} -> "DONE"
      [] c = "e" -> "ERROR"

\* the steps of the generate/review loop and of what follows it
AiLoopSteps ==
    /\ pc \in {"ai_call", "ai_review"} =>
           /\ runbook[task].status = "RUNNING"
           /\ UNCHANGED <<runbook, detail, log>>
    /\ pc = "ai_call" =>
           \/ pc' = "ai_review" /\ Len(sent') = Len(sent) + 1
           \/ pc' = "idle" /\ exit_code' = 137
    /\ pc = "ai_review" =>
           \/ pc' = "term_status" /\ choice' \in {"y", "m", "e"}
           \/ pc' = "ai_call" /\ sent' = sent /\ result' = result
           \/ pc' = "idle" /\ exit_code' = 137
    /\ (pc = "term_status" /\ task_type = "AI_ASSISTED") =>
           /\ runbook'[task].status = ReviewedStatus(choice)
           /\ detail'[task].status = ReviewedStatus(choice)
           /\ result' = result
    /\ (pc = "term_log" /\ task_type = "AI_ASSISTED") =>
           /\ log'[Len(log')].details.response = result
           /\ detail' = detail
           /\ choice = "e" => pc' = "issue" /\ result' = result
           /\ choice # "e" => pc' = "idle" /\ exit_code' = 0
    /\ (pc = "issue" /\ task_type = "AI_ASSISTED") =>
           /\ choice = "e"
           /\ detail'[task].issues =
                  Append(detail[task].issues,
                         [type |-> "AI_RESPONSE_REJECTED", detail |-> result])
           /\ pc' = "idle"

\* the program's own steps are taken once they can be; the operator's
\* answers, the script and a kill from outside are not
Fairness ==
    /\ WF_vars(AiCall("text") \/ AiCall(""))
    /\ WF_vars(TermStatus)
    /\ WF_vars(TermLog)
    /\ WF_vars(RecordIssue)

\* the run controller on runbooks of at most MaxFaultEdges dependency
\* entries, with the program's steps taken fairly
SpecLive == InitFaults /\ [][Next]_vars /\ Fairness

\* C16: in the generate/review loop the task stays RUNNING and nothing is
\* persisted; y and m end the loop with DONE, e ends it with ERROR and one
\* AI_RESPONSE_REJECTED issue holding the last response, r leads to another
\* generation call (as often as it is chosen); once a decisive answer is
\* given the invocation ends with the task in its terminal status, also when
\* every response was empty.
C16_AiLoop ==
    /\ [][AiLoopSteps]_vars
    /\ []((pc = "ai_review" /\ Len(sent) <= MaxRetries) => ENABLED AiRetry)
    /\ \A c \in {"y", "m", "e"} :
          (pc = "term_status" /\ task_type = "AI_ASSISTED" /\ choice = c)
              ~> (pc = "idle" /\ task # 0 /\ runbook[task].status = ReviewedStatus(c))

\* C16 witness: a review loop in which the generation capability was
\* unavailable has ended on the answer e: the task is ERROR, the log entry
\* and the issue hold the empty response.
C16_Witness ==
    /\ pc = "idle"
    /\ choice = "e"
    /\ exit_code = 0
    /\ runbook[task].status = "ERROR"
    /\ detail[task].issues = <<[type |-> "AI_RESPONSE_REJECTED", detail |-> ""]>>
    /\ log[Len(log)].details = AiDetails("")

\* C17: a detail file that is absent or empty is read as an empty record and
\* the step that needed it goes on (update_task_status writes the status and
\* main() continues, the handler starts); an invocation that finds no
\* runbook.yaml ends with exit code 1 and has changed nothing. (Stated of the
\* program's steps: a step that changes the files from outside is exempt.)
C17_StoreTolerance ==
    [][faults' = faults =>
       /\ (pc \in {"mark", "term_status"} /\ detail[task].writable
           /\ (~detail[task].exists \/ detail[task].blank)) =>
              /\ pc' = (IF pc = "mark" THEN "log_start" ELSE "term_log")
              /\ runbook'[task].status = (IF pc = "mark" THEN "RUNNING" ELSE new_status)
       /\ (pc = "dispatch"
           /\ (~detail[task].exists \/ detail[task].blank)) =>
              pc' \in {"manual", "script", "ai_call", "term_status"}
       /\ (pc = "idle" /\ ~runbook_exists) =>
              /\ pc' = "idle"
              /\ exit_code' = 1
              /\ n_started' = 0
              /\ UNCHANGED <<runbook, detail, log>>]_vars

\* C18: a log entry that cannot be appended (the log file is not writable)
\* and an issue that cannot be recorded (the detail file cannot be loaded or
\* written) leave the runbook as committed and do not stop the invocation:
\* after the failed START_TASK entry the handler starts, after the failed
\* terminal entry the issue is still recorded on ERROR, and the invocation
\* ends with exit code 0. (Stated of the program's steps.)
C18_TelemetryNonFatal ==
    [][faults' = faults =>
       /\ (pc = "log_start" /\ log_env = "unwritable") =>
              /\ runbook' = runbook
              /\ pc' = "dispatch"
       /\ (pc = "term_log" /\ log_env = "unwritable") =>
              /\ runbook' = runbook
              /\ runbook[task].status = "ERROR" => pc' = "issue"
              /\ runbook[task].status # "ERROR" => pc' = "idle" /\ exit_code' = 0
       /\ (pc = "issue" /\ (~detail[task].exists \/ ~detail[task].writable)) =>
              /\ runbook' = runbook
              /\ runbook[task].status = "ERROR"
              /\ pc' = "idle"
              /\ exit_code' = 0]_vars

\* position i holds a task left RUNNING by an earlier process: it is RUNNING
\* and is not the task this invocation has marked
Stale(i) ==
    /\ runbook[i].status = "RUNNING"
    /\ i # task \/ pc \in {"rebase", "gate", "refresh", "select", "mark"}

\* position j names the task at position i in its depends_on
DependsOn(j, i) ==
    \E k \in 1..Len(runbook[j].depends_on) : runbook[j].depends_on[k] = runbook[i].id

\* the positions that depend on a position of S, directly or through tasks
\* that satisfy Through, together with S
RECURSIVE Dependents(_, _, _)
Dependents(S, Through(_), n) ==
    IF n = 0 THEN S
    ELSE Dependents(S \cup {j \in Positions :
                               Through(j) /\ \E i \in S : DependsOn(j, i)},
                    Through, n - 1)

AnyTask(j) == TRUE
Unfinished(j) == runbook[j].status \notin {"DONE", "SKIPPED"}

\* the stale tasks and what hangs on them
Held(Through(_)) ==
    Dependents({i \in Positions : Stale(i)}, Through, NumTasks)

\* an invocation without start_from does not touch the tasks of H: none is
\* promoted to READY, none is marked RUNNING, none is selected or logged, and
\* the stale tasks stay exactly as they are
Untouched(H) ==
    (pc # "idle" /\ start_from = 0) =>
        /\ \A j \in H :
               /\ runbook'[j].status = "READY" => runbook[j].status = "READY"
               /\ runbook'[j].status = "RUNNING" => runbook[j].status = "RUNNING"
               /\ Stale(j) => runbook'[j] = runbook[j] /\ detail'[j] = detail[j]
               /\ task' # task => task' # j
        /\ log' # log =>
               \A j \in H : log'[Len(log')].task_id # runbook[j].id

\* C19 as claimed: a task found RUNNING by an invocation without start_from
\* stays RUNNING, is never selected or logged, and every task that depends on
\* it directly or transitively is never promoted to READY or executed.
C19_Original == [][Untouched(Held(AnyTask))]_vars

\* C19 amended: the same, for the tasks that depend on the RUNNING task
\* directly, or transitively through tasks that are themselves not DONE or
\* SKIPPED. (A task whose own dependencies are all DONE or SKIPPED runs, also
\* when one of those depends on the RUNNING task.)
C19_NoAutoResume == [][Untouched(Held(Unfinished))]_vars

\* C19 witness: an invocation without start_from has executed a task and
\* ended while another task, left RUNNING by a killed process, is still
\* RUNNING and the task that depends on it is still PENDING.
C19_Witness ==
    /\ pc = "idle"
    /\ start_from = 0
    /\ n_terminal = 1
    /\ \E i, j \in Positions :
          /\ i # task
          /\ runbook[i].status = "RUNNING"
          /\ runbook[j].status = "PENDING"
          /\ runbook[j].depends_on = <<runbook[i].id>>
          /\ \A n \in (log_mark + 1)..Len(log) : log[n].task_id # runbook[i].id

\* C20: whatever preceded (a rebase that forced the target to READY
\* included), a task becomes RUNNING only in the step that marks the selected
\* READY task, and only if at that moment every id in its depends_on is the
\* id of a DONE or SKIPPED task; a READY task with an unmet or missing
\* dependency is not selected and is left READY by every step after the
\* rebase.
C20_DependencySafety ==
    [][/\ \A i \in Positions :
              (runbook'[i].status = "RUNNING" /\ runbook[i].status # "RUNNING") =>
                  /\ pc = "mark"
                  /\ i = task
                  /\ runbook[i].status = "READY"
                  /\ DepsResolved(runbook[i], runbook)
       /\ pc \notin {"idle", "rebase"} =>
              \A i \in Positions :
                  (runbook[i].status = "READY" /\ ~DepsResolved(runbook[i], runbook)) =>
                      /\ runbook'[i].status = "READY"
                      /\ task' # i]_vars

\* C20 witness: 'run --start-from 2' forced task 2 to READY although its
\* dependency is unmet; the invocation executed another task instead and
\* ended, and task 2 is still READY.
C20_Witness ==
    /\ pc = "idle"
    /\ start_from = 2
    /\ n_terminal = 1
    /\ task # 2
    /\ runbook[2].status = "READY"
    /\ runbook[2].depends_on # <<>>
    /\ ~DepsResolved(runbook[2], runbook)

\* C21: the terminal log entry of an executed task is COMPLETE_TASK exactly
\* when the task's new status is DONE and ERROR_TASK otherwise; a MANUAL task
\* the operator skips is SKIPPED, is logged as ERROR_TASK with status_change
\* RUNNING->SKIPPED and gets no issue; the error gate stops an invocation
\* exactly when some task's status is ERROR, so not because of that entry.
C21_TerminalEvent ==
    [][/\ pc = "term_log" =>
              /\ Len(log') = Len(log) + 1
              /\ log'[Len(log')].event_type = "COMPLETE_TASK"
                     <=> runbook[task].status = "DONE"
              /\ log'[Len(log')].event_type = "ERROR_TASK"
                     <=> runbook[task].status \in {"ERROR", "SKIPPED"}
              /\ log'[Len(log')].status_change = <<"RUNNING", runbook[task].status>>
       /\ (pc = "term_log" /\ task_type = "MANUAL" /\ choice = "s") =>
              /\ runbook[task].status = "SKIPPED"
              /\ log'[Len(log')].event_type = "ERROR_TASK"
              /\ log'[Len(log')].status_change = <<"RUNNING", "SKIPPED">>
              /\ detail' = detail
              /\ runbook' = runbook
              /\ pc' = "idle"
              /\ exit_code' = 0
       /\ pc = "gate" =>
              /\ pc' = "idle" <=> \E i \in Positions : runbook[i].status = "ERROR"
              /\ pc' = "refresh" <=> \A i \in Positions : runbook[i].status # "ERROR"]_vars

\* C21 witness: an invocation without start_from has passed the error gate
\* while the log holds the ERROR_TASK entry of a skipped task, which is
\* SKIPPED and has no issue.
C21_Witness ==
    /\ pc = "refresh"
    /\ start_from = 0
    /\ \E n \in 1..Len(log), i \in Positions :
          /\ log[n].task_id = runbook[i].id
          /\ log[n].event_type = "ERROR_TASK"
          /\ log[n].status_change = <<"RUNNING", "SKIPPED">>
          /\ Len(log) = n
          /\ runbook[i].status = "SKIPPED"
          /\ detail[i].issues = <<>>

\* ------------------------------------------- repeated runs to completion

\* the log is followed until every task has been executed and one more
\* invocation has found nothing to do
ProgressLog == 2 * NumTasks + 2

\* a runbook as generate_app_runbook.py leaves it, with at most
\* MaxProgressEdges dependency entries of any kind
InitProgress ==
    /\ \E es \in EdgeSets(MaxProgressEdges) :
          runbook = Runbook([i \in Positions |-> "PENDING"], es)
    /\ detail = [i \in Positions |->
                    [exists |-> TRUE, writable |-> TRUE, blank |-> FALSE,
                     status |-> "PENDING", issues |-> <<>>]]
    /\ log = <<>>
    /\ log_env = "ok"
    /\ runbook_exists = TRUE
    /\ faults = 0
    /\ fault_runs = 0
    /\ pc = "idle"
    /\ start_from = 0
    /\ exit_code = -1
    /\ InitLocals
    /\ InitHistory

\* run is invoked again and again without --start-from; the operator accepts
\* or skips, scripts exit 0, no process is killed
NextProgress ==
    \/ Begin(0, ProgressLog)
    \/ NoRebase
    \/ GatePass
    \/ Refresh
    \/ Select
    \/ NoneReady
    \/ MarkRunning
    \/ LogStart
    \/ \E ty \in TaskTypes, fb \in BOOLEAN : Dispatch(ty, fb)
    \/ \E c \in {"y", "s"} : ManualChoice(c)
    \/ ManualRepeat
    \/ ScriptRun(0)
    \/ \E resp \in {"text", ""} : AiCall(resp)
    \/ \E c \in {"y", "m"} : AiDecide(c)
    \/ AiRetry
    \/ AiRepeat
    \/ TermStatus
    \/ TermLog

\* the operator keeps invoking run and answering its prompts
SpecProgress == InitProgress /\ [][NextProgress]_vars /\ WF_vars(NextProgress)

\* position i names an id in its depends_on that no task carries
HasGhost(i) ==
    \E k \in 1..Len(runbook[i].depends_on) :
        \A j \in Positions : runbook[j].id # runbook[i].depends_on[k]

\* position i lies on a cycle of the depends_on relation
OnCycle(i) ==
    \E j \in Dependents({i}, AnyTask, NumTasks) : DependsOn(i, j)

\* the depends_on relation is acyclic and every dependency id exists
WellFormed == \A i \in Positions : ~HasGhost(i) /\ ~OnCycle(i)

AllFinished == \A i \in Positions : runbook[i].status \in {"DONE", "SKIPPED"}

\* the steps of the repeated invocations
ProgressSteps ==
    /\ n_started' <= 1
    /\ (pc = "select" /\ WellFormed /\ ~AllFinished) =>
           /\ pc' = "mark"
           /\ runbook[task'].status = "READY"
    /\ pc = "mark" =>
           /\ DepsResolved(runbook[task], runbook)
           /\ runbook'[task].status = "RUNNING"
    /\ pc = "term_status" => runbook'[task].status \in {"DONE", "SKIPPED"}
    /\ \A i \in Positions :
           runbook[i].status \in {"DONE", "SKIPPED"} => runbook'[i] = runbook[i]
    /\ (AllFinished /\ pc # "idle" /\ n_terminal = 0) =>
           /\ UNCHANGED <<runbook, detail, log>>
           /\ n_started' = 0
           /\ pc = "select" => pc' = "idle" /\ exit_code' = 0

\* C22: from a runbook whose tasks are all PENDING, whose depends_on relation
\* is acyclic and names existing ids only, invocations without start_from in
\* which every executed task ends DONE or SKIPPED bring every task to DONE or
\* SKIPPED for good: each invocation before that executes exactly one task,
\* whose dependencies are all DONE or SKIPPED by then; each invocation after
\* that finds no READY task, exits 0 and changes nothing. A task on a
\* dependency cycle or with a dependency id that no task carries is PENDING
\* in every state.
C22_Progress ==
    /\ [][ProgressSteps]_vars
    /\ <>[](WellFormed => AllFinished)
    /\ [](\A i \in Positions :
              (OnCycle(i) \/ HasGhost(i)) => runbook[i].status = "PENDING")

\* C22 witness: a chain (task 3 depends on task 2, task 2 on task 1) has been
\* run to completion in three invocations, in the order of the chain, and a
\* fourth invocation has found no READY task.
C22_Witness ==
    /\ pc = "idle"
    /\ exit_code = 0
    /\ n_started = 0
    /\ runbook[2].depends_on = <<1>>
    /\ runbook[3].depends_on = <<2>>
    /\ AllFinished
    /\ Len(log) = 2 * NumTasks
    /\ log_mark = Len(log)
    /\ log[1].task_id = 1
    /\ log[3].task_id = 2
    /\ log[5].task_id = 3
    /\ \E i \in Positions : runbook[i].status = "SKIPPED"

====
